---- MODULE Spec2Model ----
\* Retrieval core of the RAG blog system: DocumentProcessor (chunking,
\* embedding), VectorStore (FAISS flat L2 index, search, save/load),
\* RetrievalSystem (build_index, retrieve, load_index) and
\* RAGBlogSystem.setup_knowledge_base, over a shared file system; and the
\* like_blog view of the blogs backend over its database.
EXTENDS Integers, Sequences, FiniteSets, TLC

VARIABLES
    model_name,      \* RetrievalSystem.model_name
    sentence_model,  \* RetrievalSystem.sentence_model (None or the loaded model's name)
    vector_store,    \* RetrievalSystem.vector_store: the VectorStore's fields
    is_ready,        \* RAGBlogSystem.is_ready
    fs,              \* the file system: per path prefix, the two artifacts
    ret,             \* the last call: its name, arguments and outcome
    ever_ready,      \* history: a create_index or load_index of this VectorStore
                     \* has completed
    thread,          \* per thread of the process: the statement it is at and
                     \* the locals of the call it is in
    loads,           \* history: the SentenceTransformer(...) constructions of
                     \* the threads, per call site
    chunker,         \* the locals of one chunk_text call
    processor,       \* a DocumentProcessor used on its own: its fields
    pickles,         \* the file save_embeddings writes and load_embeddings reads
    db,              \* the blogs database: the Blog row and its BlogLike rows
    request          \* per user: the like_blog request under way and its locals

\* The variables the whole-call actions leave alone: they belong to the
\* other specifications below.
stepwise == <<thread, loads, chunker, processor, pickles, db, request>>

vars == <<model_name, sentence_model, vector_store, is_ready, fs, ret, ever_ready,
          thread, loads, chunker, processor, pickles, db, request>>

\* ------------------------------------------------------------------ bounds

\* Largest k a caller passes to search / retrieve.
MaxK == 3

\* Longest text given to a chunk_text call that is followed statement by
\* statement.
MaxTextLen == 7

\* Longest text of the calls whose termination is checked under fairness.
MaxShortTextLen == 3

\* Most calls one thread makes.
MaxCalls == 2

\* Length of the long document contents given to process_documents (longer
\* than the default chunk size, so that a document has several chunks).
MaxContentLen == 560

\* Most like_blog requests one user sends.
MaxRequests == 2

\* ------------------------------------------------------- program constants

\* VectorStore.__init__(embedding_dim=384)
DEFAULT_EMBEDDING_DIM == 384
\* DocumentProcessor.chunk_text(chunk_size=500, overlap=50)
DEFAULT_CHUNK_SIZE == 500
DEFAULT_OVERLAP == 50

\* Python's None where the field otherwise holds a name.
None == "None"
\* Python's None where the field otherwise holds an object.
NoneObject == [kind |-> "None"]

\* ------------------------------------------------------------ Python text

Max(a, b) == IF a >= b THEN a ELSE b
Min(a, b) == IF a <= b THEN a ELSE b

\* str.strip() treats these as whitespace.
Whitespace == {" ", "\n", "\t"}

\* text[a:b] for a >= 0 (0-based, end exclusive), b of either sign.
PySlice(text, a, b) ==
    LET n  == Len(text)
        hi == IF b < 0 THEN Max(0, n + b) ELSE Min(b, n)
        lo == Min(a, n)
    IN  IF lo >= hi THEN <<>> ELSE SubSeq(text, lo + 1, hi)

\* chunk.rfind(c): the 0-based index of the last c, or -1.
RFind(chunk, c) ==
    LET hits == {i \in 1..Len(chunk) : chunk[i] = c}
    IN  IF hits = {} THEN -1
        ELSE (CHOOSE i \in hits : \A j \in hits : j <= i) - 1

\* chunk.strip()
Strip(chunk) ==
    LET keep == {i \in 1..Len(chunk) : chunk[i] \notin Whitespace}
    IN  IF keep = {} THEN <<>>
        ELSE SubSeq(chunk,
                    CHOOSE i \in keep : \A j \in keep : i <= j,
                    CHOOSE i \in keep : \A j \in keep : j <= i)

\* ------------------------------------------------------ DocumentProcessor

\* Mutant of ChunkStep: the next start is end - overlap, without the minimum
\* progress of one character.
ChunkStep_no_minimum_progress(text, chunk_size, overlap, start) ==
    LET end0   == start + chunk_size
        chunk0 == PySlice(text, start, end0)
        break_point == Max(RFind(chunk0, "."), RFind(chunk0, "\n"))
        shorten == end0 < Len(text) /\ break_point > start + (chunk_size \div 2)
        chunk  == IF shorten THEN PySlice(text, start, start + break_point + 1)
                  ELSE chunk0
        end    == IF shorten THEN start + break_point + 1 ELSE end0
    IN  [chunk |-> Strip(chunk), end |-> end, next |-> end - overlap]

\* Mutant of ChunkStep: the next window starts one character after the end
\* of the chunk.
ChunkStep_skips_a_character(text, chunk_size, overlap, start) ==
    LET end0   == start + chunk_size
        chunk0 == PySlice(text, start, end0)
        break_point == Max(RFind(chunk0, "."), RFind(chunk0, "\n"))
        shorten == end0 < Len(text) /\ break_point > start + (chunk_size \div 2)
        chunk  == IF shorten THEN PySlice(text, start, start + break_point + 1)
                  ELSE chunk0
        end    == IF shorten THEN start + break_point + 1 ELSE end0
    IN  [chunk |-> Strip(chunk), end |-> end, next |-> end + 1]

\* Mutant of ChunkStep: the chunk is appended without strip().
ChunkStep_unstripped(text, chunk_size, overlap, start) ==
    LET end0   == start + chunk_size
        chunk0 == PySlice(text, start, end0)
        break_point == Max(RFind(chunk0, "."), RFind(chunk0, "\n"))
        shorten == end0 < Len(text) /\ break_point > start + (chunk_size \div 2)
        chunk  == IF shorten THEN PySlice(text, start, start + break_point + 1)
                  ELSE chunk0
        end    == IF shorten THEN start + break_point + 1 ELSE end0
    IN  [chunk |-> chunk, end |-> end,
         next |-> Max(start + 1, end - overlap)]

\* One iteration of the while loop of chunk_text: the chunk appended and the
\* next start.
ChunkStep(text, chunk_size, overlap, start) ==
    LET end0   == start + chunk_size
        chunk0 == PySlice(text, start, end0)
        break_point == Max(RFind(chunk0, "."), RFind(chunk0, "\n"))
        shorten == end0 < Len(text) /\ break_point > start + (chunk_size \div 2)
        chunk  == IF shorten THEN PySlice(text, start, start + break_point + 1)
                  ELSE chunk0
        end    == IF shorten THEN start + break_point + 1 ELSE end0
    IN  [chunk |-> Strip(chunk), end |-> end,
         next |-> Max(start + 1, end - overlap)]

RECURSIVE ChunkLoop(_, _, _, _, _)
ChunkLoop(text, chunk_size, overlap, start, chunks) ==
    IF ~(start < Len(text)) THEN chunks
    ELSE LET s == ChunkStep(text, chunk_size, overlap, start)
         IN  ChunkLoop(text, chunk_size, overlap, s.next, Append(chunks, s.chunk))

\* chunk_text: the chunks of the loop, the empty ones dropped.
chunk_text(text, chunk_size, overlap) ==
    SelectSeq(ChunkLoop(text, chunk_size, overlap, 0, <<>>), LAMBDA c : c # <<>>)

\* doc.get(key, default)
DictGet(doc, key, default) == IF key \in DOMAIN doc THEN doc[key] ELSE default

\* Mutant of ProcessOne: chunk_index counts the chunks of all the documents
\* processed so far, not those of the parent document.
ProcessOne_running_index(doc, processed_docs) ==
    LET chunks == chunk_text(DictGet(doc, "content", <<>>),
                             DEFAULT_CHUNK_SIZE, DEFAULT_OVERLAP)
    IN  [i \in 1..Len(chunks) |->
            [id           |-> DictGet(doc, "id",
                                      ToString(Len(processed_docs) + i - 1))
                                \o "_" \o ToString(Len(processed_docs) + i - 1),
             title        |-> DictGet(doc, "title", ""),
             chunk        |-> chunks[i],
             chunk_index  |-> Len(processed_docs) + i - 1,
             total_chunks |-> Len(chunks),
             metadata     |-> DictGet(doc, "metadata", <<>>)]]

\* The chunk records process_documents appends for one document. The default
\* of doc.get('id', len(processed_docs)) is evaluated for each chunk, after the
\* chunks before it have been appended.
ProcessOne(doc, processed_docs) ==
    LET chunks == chunk_text(DictGet(doc, "content", <<>>),
                             DEFAULT_CHUNK_SIZE, DEFAULT_OVERLAP)
    IN  [i \in 1..Len(chunks) |->
            [id           |-> DictGet(doc, "id",
                                      ToString(Len(processed_docs) + i - 1))
                                \o "_" \o ToString(i - 1),
             title        |-> DictGet(doc, "title", ""),
             chunk        |-> chunks[i],
             chunk_index  |-> i - 1,
             total_chunks |-> Len(chunks),
             metadata     |-> DictGet(doc, "metadata", <<>>)]]

RECURSIVE ProcessLoop(_, _)
ProcessLoop(documents, processed_docs) ==
    IF documents = <<>> THEN processed_docs
    ELSE ProcessLoop(Tail(documents),
                     processed_docs \o ProcessOne(Head(documents), processed_docs))

\* process_documents: the chunk records of all the documents, in order.
process_documents(documents) == ProcessLoop(documents, <<>>)

\* ------------------------------------------------------ embedding models

\* The sentence-transformer models a system may be constructed with.
ModelNames == {"all-MiniLM-L6-v2", "paraphrase-MiniLM-L6-v2", "all-mpnet-base-v2"}

Count(text, c) == Cardinality({i \in 1..Len(text) : text[i] = c})

\* SentenceTransformer(name).encode(text): a vector of the model's dimension.
\* A vector is its dimension and its first two coordinates (the others are 0).
\* Each model embeds in its own way; the images of two models are disjoint.
Encode(name, text) ==
    CASE name = "all-MiniLM-L6-v2" ->
            [dim |-> 384, nz |-> <<Count(text, "a"), Count(text, "b")>>]
      [] name = "paraphrase-MiniLM-L6-v2" ->
            [dim |-> 384, nz |-> <<0 - 1 - Count(text, "b"), Count(text, "a")>>]
      [] name = "all-mpnet-base-v2" ->
            [dim |-> 768, nz |-> <<Count(text, "a"), 2 * Count(text, "b")>>]

\* model.encode(texts): one vector per text, in order.
EncodeAll(name, texts) == [i \in 1..Len(texts) |-> Encode(name, texts[i])]

\* ------------------------------------------------------------ FAISS (flat L2)

\* faiss.IndexFlatL2(d): an empty index of dimension d.
IndexFlatL2(d) == [kind |-> "IndexFlatL2", d |-> d, xb |-> <<>>]

\* Squared Euclidean distance of two vectors of one dimension.
L2(u, v) == (u.nz[1] - v.nz[1]) * (u.nz[1] - v.nz[1])
          + (u.nz[2] - v.nz[2]) * (u.nz[2] - v.nz[2])

\* Mutant of FaissSearch: the first k stored vectors in storage order, not
\* ordered by distance.
FaissSearch_unsorted(index, x, k) ==
    [r \in 1..k |->
        IF r <= Len(index.xb)
        THEN [label |-> r - 1, distance |-> L2(index.xb[r], x)]
        ELSE [label |-> -1, distance |-> 2147483646]]

\* index.search(x, k) of the flat index: the k nearest stored vectors by
\* ascending distance (0-based labels), padded with label -1 when the index
\* holds fewer than k vectors (faiss fills the padded distances with the
\* largest float: here a number above every distance).
FaissSearch(index, x, k) ==
    LET n == Len(index.xb)
        dist(i) == L2(index.xb[i], x)
        before(i, j) == dist(i) < dist(j) \/ (dist(i) = dist(j) /\ i < j)
        pos(i) == Cardinality({j \in 1..n : before(j, i)}) + 1
        at(r) == CHOOSE i \in 1..n : pos(i) = r
    IN  [r \in 1..k |->
            IF r <= n THEN [label |-> at(r) - 1, distance |-> dist(at(r))]
            ELSE [label |-> -1, distance |-> 2147483646]]

\* ------------------------------------------------------------ VectorStore

\* VectorStore.__init__
VectorStoreInit(embedding_dim) ==
    [embedding_dim |-> embedding_dim,
     index         |-> NoneObject,
     documents     |-> <<>>,
     embeddings    |-> NoneObject,
     is_trained    |-> FALSE]

\* Mutant of create_index: the new vectors and chunk records are added to the
\* ones the store already holds.
create_index_incremental(vs, embeddings, documents) ==
    LET old == IF vs.index = NoneObject THEN <<>> ELSE vs.index.xb
    IN  IF \E i \in 1..Len(embeddings) : embeddings[i].dim # vs.embedding_dim
        THEN [outcome |-> "AssertionError", vs |-> vs]
        ELSE [outcome |-> "ok",
              vs      |-> [vs EXCEPT !.index = [kind |-> "IndexFlatL2",
                                                d |-> vs.embedding_dim,
                                                xb |-> old \o embeddings],
                                     !.documents = vs.documents \o documents,
                                     !.embeddings = [kind |-> "ndarray",
                                                     rows |-> old \o embeddings],
                                     !.is_trained = TRUE]]

\* VectorStore.create_index: the outcome and the store it leaves. index.add
\* asserts that the vectors have the index's dimension, after self.index has
\* been replaced by the new empty index.
create_index(vs, embeddings, documents) ==
    LET fresh == IndexFlatL2(vs.embedding_dim)
    IN  IF \E i \in 1..Len(embeddings) : embeddings[i].dim # fresh.d
        THEN [outcome |-> "AssertionError",
              vs      |-> [vs EXCEPT !.index = fresh]]
        ELSE [outcome |-> "ok",
              vs      |-> [vs EXCEPT !.index = [fresh EXCEPT !.xb = embeddings],
                                     !.documents = documents,
                                     !.embeddings = [kind |-> "ndarray", rows |-> embeddings],
                                     !.is_trained = TRUE]]

\* float(1 / (1 + distance)), kept as a fraction.
SimilarityScore(distance) == [num |-> 1, den |-> 1 + distance]

\* Mutant of SearchResults: the entries with idx = -1 are not skipped, and
\* documents[-1] is the last chunk record.
SearchResults_keep_sentinel(documents, hits) ==
    [r \in 1..Len(hits) |->
        [similarity_score |-> SimilarityScore(hits[r].distance),
         rank             |-> r]
        @@ documents[IF hits[r].label = -1 THEN Len(documents)
                     ELSE hits[r].label + 1]]

\* The loop of search over the (distance, idx) pairs faiss returned: the
\* entries with idx = -1 are skipped, the others become result records.
SearchResults(documents, hits) ==
    LET ranked == [i \in 1..Len(hits) |->
                      [i |-> i - 1, distance |-> hits[i].distance,
                       idx |-> hits[i].label]]
        valid == SelectSeq(ranked, LAMBDA h : h.idx # -1)
    IN  [j \in 1..Len(valid) |->
            [similarity_score |-> SimilarityScore(valid[j].distance),
             rank             |-> valid[j].i + 1]
            @@ documents[valid[j].idx + 1]]

\* Mutant of search: the is_trained guard is missing.
search_unguarded(vs, query_embedding, k) ==
    IF vs.index = NoneObject THEN [outcome |-> "AttributeError", value |-> <<>>]
    ELSE IF query_embedding.dim # vs.index.d \/ ~(k > 0)
         THEN [outcome |-> "AssertionError", value |-> <<>>]
    ELSE [outcome |-> "ok",
          value |-> SearchResults(vs.documents,
                                  FaissSearch(vs.index, query_embedding, k))]

\* Mutant of search: the query's dimension is not compared with the index's.
search_any_dimension(vs, query_embedding, k) ==
    IF ~vs.is_trained THEN [outcome |-> "ValueError", value |-> <<>>]
    ELSE [outcome |-> "ok",
          value |-> SearchResults(vs.documents,
                                  FaissSearch(vs.index, query_embedding, k))]

\* VectorStore.search: the exception raised, or the result list.
search(vs, query_embedding, k) ==
    IF ~vs.is_trained THEN [outcome |-> "ValueError", value |-> <<>>]
    ELSE IF vs.index = NoneObject THEN [outcome |-> "AttributeError", value |-> <<>>]
    ELSE IF query_embedding.dim # vs.index.d \/ ~(k > 0)
         THEN [outcome |-> "AssertionError", value |-> <<>>]
    ELSE LET hits == FaissSearch(vs.index, query_embedding, k)
         IN  IF \E r \in 1..Len(hits) : hits[r].label # -1
                                        /\ hits[r].label >= Len(vs.documents)
             THEN [outcome |-> "IndexError", value |-> <<>>]
             ELSE [outcome |-> "ok", value |-> SearchResults(vs.documents, hits)]

\* ------------------------------------------------------------ file system

NoFile == [kind |-> "NoFile"]

\* faiss.write_index / faiss.read_index: the index as a file and back.
WriteIndex(index) == [kind |-> "faiss", d |-> index.d, xb |-> index.xb]
ReadIndex(blob) == [kind |-> "IndexFlatL2", d |-> blob.d, xb |-> blob.xb]

\* pickle.dump(metadata) of save_index: the bundle written.
Metadata(vs) ==
    [kind          |-> "pickle",
     documents     |-> vs.documents,
     embeddings    |-> vs.embeddings,
     embedding_dim |-> vs.embedding_dim,
     is_trained    |-> vs.is_trained]

\* os.path.exists(f"{file_path}.index") and (f"{file_path}.metadata")
ExistsIndex(files, file_path) == files[file_path].index # NoFile
ExistsMetadata(files, file_path) == files[file_path].metadata # NoFile

\* VectorStore.save_index. io tells whether the open of the metadata file,
\* after the index file has been written, succeeds.
save_index(vs, files, file_path, io) ==
    IF ~vs.is_trained THEN [outcome |-> "ValueError", fs |-> files]
    ELSE LET written == [files EXCEPT ![file_path].index = WriteIndex(vs.index)]
         IN  IF ~io THEN [outcome |-> "OSError", fs |-> written]
             ELSE [outcome |-> "ok",
                   fs |-> [written EXCEPT ![file_path].metadata = Metadata(vs)]]

\* Mutant of load_index: the chunk records of the metadata are not restored.
load_index_without_documents(vs, files, file_path) ==
    IF ~ExistsIndex(files, file_path) \/ ~ExistsMetadata(files, file_path)
    THEN [outcome |-> "FileNotFoundError", vs |-> vs]
    ELSE [outcome |-> "ok",
          vs |-> [vs EXCEPT !.index = ReadIndex(files[file_path].index),
                            !.embeddings = files[file_path].metadata.embeddings,
                            !.embedding_dim = files[file_path].metadata.embedding_dim,
                            !.is_trained = files[file_path].metadata.is_trained]]

\* Mutant of load_index: only the index file is checked before it is read;
\* the open of a missing metadata file raises afterwards.
load_index_reads_before_check(vs, files, file_path) ==
    IF ~ExistsIndex(files, file_path)
    THEN [outcome |-> "FileNotFoundError", vs |-> vs]
    ELSE IF ~ExistsMetadata(files, file_path)
    THEN [outcome |-> "FileNotFoundError",
          vs |-> [vs EXCEPT !.index = ReadIndex(files[file_path].index)]]
    ELSE [outcome |-> "ok",
          vs |-> [embedding_dim |-> files[file_path].metadata.embedding_dim,
                  index         |-> ReadIndex(files[file_path].index),
                  documents     |-> files[file_path].metadata.documents,
                  embeddings    |-> files[file_path].metadata.embeddings,
                  is_trained    |-> files[file_path].metadata.is_trained]]

\* VectorStore.load_index
load_index(vs, files, file_path) ==
    IF ~ExistsIndex(files, file_path) \/ ~ExistsMetadata(files, file_path)
    THEN [outcome |-> "FileNotFoundError", vs |-> vs]
    ELSE LET metadata == files[file_path].metadata
         IN  [outcome |-> "ok",
              vs |-> [embedding_dim |-> metadata.embedding_dim,
                      index         |-> ReadIndex(files[file_path].index),
                      documents     |-> metadata.documents,
                      embeddings    |-> metadata.embeddings,
                      is_trained    |-> metadata.is_trained]]

\* -------------------------------------------------------- RetrievalSystem

\* RetrievalSystem.load_model: the model held afterwards.
load_model(name, held) == IF held = None THEN name ELSE held

\* Mutant of create_embeddings: the check for no chunks is missing.
create_embeddings_unchecked(name, processed_docs) ==
    [outcome |-> "ok",
     embeddings |-> EncodeAll(name,
                       [i \in 1..Len(processed_docs) |-> processed_docs[i].chunk])]

\* DocumentProcessor.create_embeddings() of build_index's new processor:
\* ValueError when the processor holds no chunk, else one vector per chunk.
create_embeddings(name, processed_docs) ==
    IF processed_docs = <<>>
    THEN [outcome |-> "ValueError", embeddings |-> <<>>]
    ELSE [outcome |-> "ok",
          embeddings |-> EncodeAll(name,
                            [i \in 1..Len(processed_docs) |-> processed_docs[i].chunk])]

\* RetrievalSystem.build_index: the outcome and the vector store it leaves.
build_index(name, vs, documents) ==
    LET processed_docs == process_documents(documents)
        made == create_embeddings(name, processed_docs)
    IN  IF made.outcome # "ok" THEN [outcome |-> made.outcome, vs |-> vs]
        ELSE create_index(vs, made.embeddings, processed_docs)

\* RetrievalSystem.retrieve: the model held afterwards, the query vector and
\* the outcome of the search.
retrieve(name, held, vs, query, k) ==
    LET model == load_model(name, held)
        query_embedding == Encode(model, query)
        found == search(vs, query_embedding, k)
    IN  [sentence_model |-> model, query_embedding |-> query_embedding,
         outcome |-> found.outcome, value |-> found.value]

\* RetrievalSystem.load_index: VectorStore.load_index, then load_model.
rs_load_index(name, held, vs, files, file_path) ==
    LET loaded == load_index(vs, files, file_path)
    IN  [outcome |-> loaded.outcome, vs |-> loaded.vs,
         sentence_model |-> IF loaded.outcome = "ok" THEN load_model(name, held)
                            ELSE held]

\* ------------------------------------- DocumentProcessor used on its own

\* DocumentProcessor.__init__
DocumentProcessorInit(name) ==
    [model_name |-> name,
     model      |-> None,
     documents  |-> <<>>,
     embeddings |-> NoneObject]

\* DocumentProcessor.load_model: constructs the model of model_name, whatever
\* model is held.
DocumentProcessor_load_model(dp) == [dp EXCEPT !.model = dp.model_name]

\* DocumentProcessor.create_embeddings(texts): texts is NoneObject or
\* [kind |-> "list", texts |-> ...]. given is the local texts once line 122
\* has replaced None by the stored chunks; line 127 tests that local.
DocumentProcessor_create_embeddings(dp, texts) ==
    LET loaded == IF dp.model = None THEN DocumentProcessor_load_model(dp) ELSE dp
        given  == IF texts = NoneObject
                  THEN [kind |-> "list",
                        texts |-> [i \in 1..Len(dp.documents) |->
                                      dp.documents[i].chunk]]
                  ELSE texts
        embeddings == [kind |-> "ndarray",
                       rows |-> EncodeAll(loaded.model, given.texts)]
    IN  IF texts = NoneObject /\ dp.documents = <<>>
        THEN [outcome |-> "ValueError", dp |-> loaded, value |-> NoneObject]
        ELSE [outcome |-> "ok",
              dp      |-> IF given = NoneObject
                          THEN [loaded EXCEPT !.embeddings = embeddings]
                          ELSE loaded,
              value   |-> embeddings]

\* DocumentProcessor.save_embeddings: the data pickled to the file.
DocumentProcessor_save_embeddings(dp) ==
    [kind       |-> "pickle",
     documents  |-> dp.documents,
     embeddings |-> dp.embeddings,
     model_name |-> dp.model_name]

\* DocumentProcessor.load_embeddings: the three fields are taken from the
\* file, then the model is loaded if none is held or if self.model_name,
\* just assigned from the file, differs from the file's model_name.
DocumentProcessor_load_embeddings(dp, data) ==
    IF data = NoFile THEN [outcome |-> "FileNotFoundError", dp |-> dp]
    ELSE LET restored == [dp EXCEPT !.documents = data.documents,
                                    !.embeddings = data.embeddings,
                                    !.model_name = data.model_name]
         IN  [outcome |-> "ok",
              dp |-> IF restored.model = None
                        \/ restored.model_name # data.model_name
                     THEN DocumentProcessor_load_model(restored)
                     ELSE restored]

\* A Python str from the characters of a text.
RECURSIVE StrOf(_)
StrOf(chars) == IF chars = <<>> THEN "" ELSE Head(chars) \o StrOf(Tail(chars))

\* sep.join(parts)
RECURSIVE Join(_, _)
Join(parts, sep) ==
    IF parts = <<>> THEN ""
    ELSE IF Len(parts) = 1 THEN parts[1]
    ELSE parts[1] \o sep \o Join(Tail(parts), sep)

\* The context_part of one result (vector_store.py:219-222).
ContextPart(result) ==
    "Title: " \o result.title \o "\n"
       \o "Content: " \o StrOf(result.chunk) \o "\n"
       \o "Category: " \o DictGet(result.metadata, "category", "Unknown") \o "\n"
       \o "---"

\* Mutant of FormatContext: the blocks are joined by a single newline.
FormatContext_single_newline(results) ==
    Join([i \in 1..Len(results) |-> ContextPart(results[i])], "\n")

\* The rendering of get_context_for_generation (vector_store.py:217-225):
\* one context_part per result, in order, joined by "\n\n".
FormatContext(results) ==
    Join([i \in 1..Len(results) |-> ContextPart(results[i])], "\n\n")

\* RetrievalSystem.get_context_for_generation: retrieve, then the rendering.
get_context_for_generation(name, held, vs, query, k) ==
    LET found == retrieve(name, held, vs, query, k)
    IN  [sentence_model |-> found.sentence_model,
         outcome |-> found.outcome,
         results |-> found.value,
         value   |-> IF found.outcome = "ok" THEN FormatContext(found.value) ELSE ""]

\* The generator behind RAGBlogSystem.generator: what it is asked to write,
\* from which context.
Generate(method, subject, context) ==
    [generator |-> method, subject |-> subject, context |-> context]

\* ---------------------------------------------------------- RAGBlogSystem

\* load_sample_blog_data(): the four sample posts (ids "1".."4"), their
\* contents shortened to a few characters.
load_sample_blog_data ==
    << [id |-> "1", title |-> "Introduction to Machine Learning",
        content |-> <<"a", "a", ".">>, metadata |-> [category |-> "AI/ML"]],
       [id |-> "2", title |-> "Web Development Best Practices",
        content |-> <<"b", "b", ".">>, metadata |-> [category |-> "Web Development"]],
       [id |-> "3", title |-> "Python Programming Tips",
        content |-> <<"a", "b", ".">>, metadata |-> [category |-> "Programming"]],
       [id |-> "4", title |-> "Database Design Fundamentals",
        content |-> <<"b", ".">>, metadata |-> [category |-> "Database"]] >>

\* The truth value Python gives an Optional[str].
Truthy(x) == x # None /\ x # ""

\* ----------------------------------------------------------------- inputs

D_web   == [id |-> "2", title |-> "Web", content |-> <<"b">>, metadata |-> <<>>]
D_noid  == [title |-> "Py", content |-> <<" ", "a", "b">>]
D_blank == [id |-> "9", title |-> "Blank", content |-> <<" ", "\n">>]

\* The document lists a caller supplies.
Corpora == { <<>>, <<D_blank>>, <<D_web, D_noid, D_blank>> }

\* The documents argument of setup_knowledge_base: None or a list.
DocumentArgs == {NoneObject} \cup {[kind |-> "list", docs |-> c] : c \in Corpora}

\* The index path prefixes, and the index_path argument (None or a prefix).
Paths == {"blog_index"}
PathArgs == {None} \cup Paths

\* The query strings of retrieve, and the vectors they embed to.
Queries == { <<"a">>, <<"b", "b">> }
QueryVectors == {Encode(m, q) : m \in ModelNames, q \in Queries}

\* The k of search and retrieve.
Ks == 1..MaxK

\* The threads of the process.
Threads == {"t1", "t2"}

\* A content of MaxContentLen characters: sentences of 80 characters.
LongContent ==
    [i \in 1..MaxContentLen |->
        IF i % 80 = 0 THEN "." ELSE IF i % 80 = 1 THEN " "
        ELSE IF i % 9 = 0 THEN "b" ELSE "a"]

D_long      == [id |-> "7", title |-> "Long", content |-> LongContent,
                metadata |-> [category |-> "AI/ML"]]
D_long_noid == [title |-> "Longer", content |-> LongContent]

\* The document lists given to a DocumentProcessor used on its own, and the
\* texts argument of its create_embeddings: None or a list of texts.
ProcessorCorpora == { <<>>, <<D_web, D_long, D_blank, D_noid>>,
                      <<D_long, D_long_noid>> }

\* process_documents of each of these document lists: it reads nothing of the
\* processor, so its result is computed once for each list.
ProcessedCorpora ==
    [documents \in ProcessorCorpora |-> process_documents(documents)]

TextArgs == {NoneObject, [kind |-> "list", texts |-> <<>>],
             [kind |-> "list", texts |-> << <<"a">>, <<"b", "b">> >>]}

\* The users who send like_blog requests.
Users == {"u1", "u2"}

\* ---------------------------------------------------------------- actions

Call(op, args, outcome, value) ==
    [op |-> op, args |-> args, outcome |-> outcome, value |-> value]

\* RAGBlogSystem(sentence_model=name) in a new process: the file system stays.
Construct(name) ==
    /\ model_name' = name
    /\ sentence_model' = None
    /\ vector_store' = VectorStoreInit(DEFAULT_EMBEDDING_DIM)
    /\ is_ready' = FALSE
    /\ ret' = Call("__init__", [sentence_model |-> name], "ok", <<>>)
    /\ ever_ready' = FALSE
    /\ UNCHANGED <<fs, stepwise>>

\* Mutant of SetupKnowledgeBase: supplied documents are not ignored; the
\* persisted index is loaded only when no documents are given.
SetupKnowledgeBase_documents_win(documents, index_path, io) ==
    IF Truthy(index_path) /\ ExistsIndex(fs, index_path) /\ documents = NoneObject
    THEN \E loaded \in {rs_load_index(model_name, sentence_model, vector_store,
                                      fs, index_path)} :
            /\ sentence_model' = loaded.sentence_model
            /\ vector_store' = loaded.vs
            /\ is_ready' = IF loaded.outcome = "ok" THEN TRUE ELSE is_ready
            /\ ever_ready' = (ever_ready \/ loaded.outcome = "ok")
            /\ ret' = Call("setup_knowledge_base",
                           [documents |-> documents, index_path |-> index_path,
                            branch |-> "load"],
                           loaded.outcome, <<>>)
            /\ UNCHANGED <<model_name, fs, stepwise>>
    ELSE \E built \in {build_index(model_name, vector_store,
                                   IF documents = NoneObject
                                   THEN load_sample_blog_data
                                   ELSE documents.docs)} :
         \E saved \in {IF built.outcome = "ok" /\ Truthy(index_path)
                       THEN save_index(built.vs, fs, index_path, io)
                       ELSE [outcome |-> built.outcome, fs |-> fs]} :
            /\ vector_store' = built.vs
            /\ fs' = saved.fs
            /\ is_ready' = IF saved.outcome = "ok" THEN TRUE ELSE is_ready
            /\ ever_ready' = (ever_ready \/ built.outcome = "ok")
            /\ ret' = Call("setup_knowledge_base",
                           [documents |-> documents, index_path |-> index_path,
                            branch |-> "build"],
                           saved.outcome, <<>>)
            /\ UNCHANGED <<model_name, sentence_model, stepwise>>

\* RAGBlogSystem.setup_knowledge_base. documents is NoneObject or
\* [kind |-> "list", docs |-> ...]; io is the io of save_index. An exception
\* of load_index, build_index or save_index leaves is_ready as it was.
SetupKnowledgeBase(documents, index_path, io) ==
    IF Truthy(index_path) /\ ExistsIndex(fs, index_path)
    THEN \E loaded \in {rs_load_index(model_name, sentence_model, vector_store,
                                      fs, index_path)} :
            /\ sentence_model' = loaded.sentence_model
            /\ vector_store' = loaded.vs
            /\ is_ready' = IF loaded.outcome = "ok" THEN TRUE ELSE is_ready
            /\ ever_ready' = (ever_ready \/ loaded.outcome = "ok")
            /\ ret' = Call("setup_knowledge_base",
                           [documents |-> documents, index_path |-> index_path,
                            branch |-> "load"],
                           loaded.outcome, <<>>)
            /\ UNCHANGED <<model_name, fs, stepwise>>
    ELSE \E built \in {build_index(model_name, vector_store,
                                   IF documents = NoneObject
                                   THEN load_sample_blog_data
                                   ELSE documents.docs)} :
         \E saved \in {IF built.outcome = "ok" /\ Truthy(index_path)
                       THEN save_index(built.vs, fs, index_path, io)
                       ELSE [outcome |-> built.outcome, fs |-> fs]} :
            /\ vector_store' = built.vs
            /\ fs' = saved.fs
            /\ is_ready' = IF saved.outcome = "ok" THEN TRUE ELSE is_ready
            /\ ever_ready' = (ever_ready \/ built.outcome = "ok")
            /\ ret' = Call("setup_knowledge_base",
                           [documents |-> documents, index_path |-> index_path,
                            branch |-> "build"],
                           saved.outcome, <<>>)
            /\ UNCHANGED <<model_name, sentence_model, stepwise>>

\* RetrievalSystem.build_index
BuildIndex(documents) ==
    \E r \in {build_index(model_name, vector_store, documents)} :
        /\ vector_store' = r.vs
        /\ ret' = Call("build_index", [documents |-> documents], r.outcome, <<>>)
        /\ ever_ready' = (ever_ready \/ r.outcome = "ok")
        /\ UNCHANGED <<model_name, sentence_model, is_ready, fs, stepwise>>

\* The call before this one was a retrieve with the same query and k.
Repeated(query, k) ==
    ret.op = "retrieve" /\ ret.args.query = query /\ ret.args.k = k

\* Mutant of Retrieve: the result loop of search works on the stored chunk
\* records themselves, not on copies (vector_store.py:80 without .copy()), so
\* the score and the rank are written into the store.
Retrieve_without_copy(query, k) ==
    \E r \in {retrieve(model_name, sentence_model, vector_store, query, k)} :
    \E hits \in {IF r.outcome = "ok"
                 THEN FaissSearch(vector_store.index, r.query_embedding, k)
                 ELSE <<>>} :
        /\ sentence_model' = r.sentence_model
        /\ vector_store' =
              [vector_store EXCEPT !.documents =
                  [i \in 1..Len(vector_store.documents) |->
                      IF \E j \in 1..Len(hits) : hits[j].label = i - 1
                      THEN [similarity_score |->
                               SimilarityScore(L2(vector_store.index.xb[i],
                                                  r.query_embedding)),
                            rank |-> CHOOSE j \in 1..Len(hits) :
                                        hits[j].label = i - 1]
                           @@ vector_store.documents[i]
                      ELSE vector_store.documents[i]]]
        /\ ret' = Call("retrieve",
                       [query |-> query, k |-> k,
                        query_embedding |-> r.query_embedding,
                        repeated |-> Repeated(query, k)],
                       r.outcome, r.value)
        /\ UNCHANGED <<model_name, is_ready, fs, ever_ready, stepwise>>

\* RetrievalSystem.retrieve. repeated is history: the call before was a
\* retrieve with the same query and k.
Retrieve(query, k) ==
    \E r \in {retrieve(model_name, sentence_model, vector_store, query, k)} :
        /\ sentence_model' = r.sentence_model
        /\ ret' = Call("retrieve",
                       [query |-> query, k |-> k,
                        query_embedding |-> r.query_embedding,
                        repeated |-> Repeated(query, k)],
                       r.outcome, r.value)
        /\ UNCHANGED <<model_name, vector_store, is_ready, fs, ever_ready, stepwise>>

\* RetrievalSystem.save_index
SaveIndex(file_path, io) ==
    \E r \in {save_index(vector_store, fs, file_path, io)} :
        /\ fs' = r.fs
        /\ ret' = Call("save_index", [file_path |-> file_path], r.outcome, <<>>)
        /\ UNCHANGED <<model_name, sentence_model, vector_store, is_ready, ever_ready,
                       stepwise>>

\* RetrievalSystem.load_index
LoadIndex(file_path) ==
    \E r \in {rs_load_index(model_name, sentence_model, vector_store, fs, file_path)} :
        /\ vector_store' = r.vs
        /\ sentence_model' = r.sentence_model
        /\ ret' = Call("load_index", [file_path |-> file_path], r.outcome, <<>>)
        /\ ever_ready' = (ever_ready \/ r.outcome = "ok")
        /\ UNCHANGED <<model_name, is_ready, fs, stepwise>>

\* The environment removes one artifact of a persisted pair.
Unlink(file_path, artifact) ==
    /\ fs[file_path][artifact] # NoFile
    /\ fs' = [fs EXCEPT ![file_path][artifact] = NoFile]
    /\ ret' = Call("unlink", [file_path |-> file_path, artifact |-> artifact],
                   "ok", <<>>)
    /\ UNCHANGED <<model_name, sentence_model, vector_store, is_ready, ever_ready,
                   stepwise>>

\* No thread is inside a call, no model has been constructed.
ThreadsIdle ==
    /\ thread = [t \in Threads |-> [pc |-> "idle", calls |-> 0, frame |-> NoneObject]]
    /\ loads = [retrieval |-> 0, processor |-> 0]

\* No chunk_text call is under way.
ChunkerIdle == chunker = [pc |-> "idle"]

\* No DocumentProcessor is used on its own and no embeddings file exists.
ProcessorUnused ==
    /\ processor = DocumentProcessorInit("all-MiniLM-L6-v2")
    /\ pickles = NoFile

\* No like_blog request is under way or has been sent; the blog is published
\* and has no like.
NoRequests ==
    /\ db = [blog |-> [is_published |-> TRUE, likes_count |-> 0], likes |-> {}]
    /\ request = [u \in Users |-> [pc |-> "idle", sent |-> 0,
                                   blog |-> NoneObject, response |-> NoneObject]]

Init ==
    /\ ThreadsIdle
    /\ ChunkerIdle
    /\ ProcessorUnused
    /\ NoRequests
    /\ model_name \in ModelNames
    /\ sentence_model = None
    /\ vector_store = VectorStoreInit(DEFAULT_EMBEDDING_DIM)
    /\ is_ready = FALSE
    /\ fs = [p \in Paths |-> [index |-> NoFile, metadata |-> NoFile]]
    /\ ret = Call("__init__", [sentence_model |-> model_name], "ok", <<>>)
    /\ ever_ready = FALSE

Next ==
    \/ \E name \in ModelNames : Construct(name)
    \/ \E documents \in DocumentArgs, index_path \in PathArgs, io \in BOOLEAN :
          SetupKnowledgeBase(documents, index_path, io)
    \/ \E documents \in Corpora : BuildIndex(documents)
    \/ \E query \in Queries, k \in Ks : Retrieve(query, k)
    \/ \E file_path \in Paths, io \in BOOLEAN : SaveIndex(file_path, io)
    \/ \E file_path \in Paths : LoadIndex(file_path)
    \/ \E file_path \in Paths, artifact \in {"index", "metadata"} :
          Unlink(file_path, artifact)

Spec == Init /\ [][Next]_vars

\* ------------------------------------------------ the RAGBlogSystem methods

\* The call record of a RAGBlogSystem method; invoked lists the calls it
\* made to the retrieval system and to the generator.
BlogCall(op, args, outcome, value, invoked) ==
    Call(op, args, outcome, value) @@ [invoked |-> invoked]

\* RAGBlogSystem.write_blog_post (rag_blog_system.py:75-121)
WriteBlogPost(topic, num_context_docs) ==
    IF ~is_ready
    THEN /\ ret' = BlogCall("write_blog_post",
                            [topic |-> topic, num_context_docs |-> num_context_docs],
                            "ValueError", <<>>, <<>>)
         /\ UNCHANGED <<model_name, sentence_model, vector_store, is_ready, fs,
                        ever_ready, stepwise>>
    ELSE \E context \in {get_context_for_generation(model_name, sentence_model,
                              vector_store, topic, num_context_docs)} :
         \E retrieved \in {retrieve(model_name, context.sentence_model,
                                    vector_store, topic, num_context_docs)} :
            /\ sentence_model' = context.sentence_model
            /\ ret' = IF context.outcome # "ok"
                      THEN BlogCall("write_blog_post",
                                    [topic |-> topic,
                                     num_context_docs |-> num_context_docs],
                                    context.outcome, <<>>, <<"retrieve">>)
                      ELSE BlogCall("write_blog_post",
                                    [topic |-> topic,
                                     num_context_docs |-> num_context_docs],
                                    "ok",
                                    [topic |-> topic,
                                     content |-> Generate("generate_blog_post",
                                                          topic, context.value),
                                     retrieved_docs |-> retrieved.value],
                                    <<"retrieve", "retrieve", "generate_blog_post">>)
            /\ UNCHANGED <<model_name, vector_store, is_ready, fs, ever_ready,
                           stepwise>>

\* RAGBlogSystem.create_blog_outline (rag_blog_system.py:123-151)
CreateBlogOutline(topic, num_context_docs) ==
    IF ~is_ready
    THEN /\ ret' = BlogCall("create_blog_outline",
                            [topic |-> topic, num_context_docs |-> num_context_docs],
                            "ValueError", <<>>, <<>>)
         /\ UNCHANGED <<model_name, sentence_model, vector_store, is_ready, fs,
                        ever_ready, stepwise>>
    ELSE \E context \in {get_context_for_generation(model_name, sentence_model,
                              vector_store, topic, num_context_docs)} :
         \E retrieved \in {retrieve(model_name, context.sentence_model,
                                    vector_store, topic, num_context_docs)} :
            /\ sentence_model' = context.sentence_model
            /\ ret' = IF context.outcome # "ok"
                      THEN BlogCall("create_blog_outline",
                                    [topic |-> topic,
                                     num_context_docs |-> num_context_docs],
                                    context.outcome, <<>>, <<"retrieve">>)
                      ELSE BlogCall("create_blog_outline",
                                    [topic |-> topic,
                                     num_context_docs |-> num_context_docs],
                                    "ok",
                                    [topic |-> topic,
                                     outline |-> Generate("generate_blog_outline",
                                                          topic, context.value),
                                     retrieved_docs |-> retrieved.value],
                                    <<"retrieve", "retrieve", "generate_blog_outline">>)
            /\ UNCHANGED <<model_name, vector_store, is_ready, fs, ever_ready,
                           stepwise>>

\* RAGBlogSystem.enhance_existing_content (rag_blog_system.py:153-174).
\* search_query is NoneObject or [kind |-> "str", text |-> ...]; the query is
\* search_query or section_title.
EnhanceExistingContent(section_title, search_query) ==
    IF ~is_ready
    THEN /\ ret' = BlogCall("enhance_existing_content",
                            [section_title |-> section_title,
                             search_query |-> search_query],
                            "ValueError", <<>>, <<>>)
         /\ UNCHANGED <<model_name, sentence_model, vector_store, is_ready, fs,
                        ever_ready, stepwise>>
    ELSE \E context \in {get_context_for_generation(model_name, sentence_model,
                              vector_store,
                              IF search_query = NoneObject \/ search_query.text = <<>>
                              THEN section_title ELSE search_query.text,
                              2)} :
            /\ sentence_model' = context.sentence_model
            /\ ret' = IF context.outcome # "ok"
                      THEN BlogCall("enhance_existing_content",
                                    [section_title |-> section_title,
                                     search_query |-> search_query],
                                    context.outcome, <<>>, <<"retrieve">>)
                      ELSE BlogCall("enhance_existing_content",
                                    [section_title |-> section_title,
                                     search_query |-> search_query],
                                    "ok",
                                    Generate("enhance_blog_section",
                                             section_title, context.value),
                                    <<"retrieve", "enhance_blog_section">>)
            /\ UNCHANGED <<model_name, vector_store, is_ready, fs, ever_ready,
                           stepwise>>

\* Mutant of SearchKnowledgeBase: the is_ready guard is missing.
SearchKnowledgeBase_unguarded(query, k) ==
    \E r \in {retrieve(model_name, sentence_model, vector_store, query, k)} :
        /\ sentence_model' = r.sentence_model
        /\ ret' = BlogCall("search_knowledge_base", [query |-> query, k |-> k],
                           r.outcome, r.value, <<"retrieve">>)
        /\ UNCHANGED <<model_name, vector_store, is_ready, fs, ever_ready, stepwise>>

\* RAGBlogSystem.search_knowledge_base (rag_blog_system.py:176-190)
SearchKnowledgeBase(query, k) ==
    IF ~is_ready
    THEN /\ ret' = BlogCall("search_knowledge_base", [query |-> query, k |-> k],
                            "ValueError", <<>>, <<>>)
         /\ UNCHANGED <<model_name, sentence_model, vector_store, is_ready, fs,
                        ever_ready, stepwise>>
    ELSE \E r \in {retrieve(model_name, sentence_model, vector_store, query, k)} :
            /\ sentence_model' = r.sentence_model
            /\ ret' = BlogCall("search_knowledge_base", [query |-> query, k |-> k],
                               r.outcome, r.value, <<"retrieve">>)
            /\ UNCHANGED <<model_name, vector_store, is_ready, fs, ever_ready,
                           stepwise>>

\* The search_query argument of enhance_existing_content: None or a string.
SearchQueryArgs == {NoneObject} \cup {[kind |-> "str", text |-> q] : q \in Queries}

\* The callers of RAGBlogSystem: its constructor and its methods.
NextBlog ==
    \/ \E name \in ModelNames : Construct(name)
    \/ \E documents \in DocumentArgs, index_path \in PathArgs, io \in BOOLEAN :
          SetupKnowledgeBase(documents, index_path, io)
    \/ \E topic \in Queries, k \in Ks : WriteBlogPost(topic, k)
    \/ \E topic \in Queries, k \in Ks : CreateBlogOutline(topic, k)
    \/ \E section_title \in Queries, search_query \in SearchQueryArgs :
          EnhanceExistingContent(section_title, search_query)
    \/ \E query \in Queries, k \in Ks : SearchKnowledgeBase(query, k)

SpecBlog == Init /\ [][NextBlog]_vars

\* ------------------------------------------- chunk_text, statement by statement

\* The characters of the texts: a letter, the two break characters, one of
\* which is whitespace.
Alphabet == {"a", ".", "\n"}

\* The texts, chunk sizes and overlaps of the chunk_text calls: every text up
\* to MaxTextLen, and sizes and overlaps that include zero, a negative number
\* and chunk_size <= overlap.
Texts == UNION {[1..n -> Alphabet] : n \in 0..MaxTextLen}
ChunkSizes == {-1, 0, 1, 2, 3, 5}
Overlaps == {-1, 0, 1, 2, 4}

\* chunk_text is entered: chunks = [], start = 0. ranges is history: the
\* (start, end) of each chunk appended.
ChunkCall(text, chunk_size, overlap) ==
    [pc |-> "while", text |-> text, chunk_size |-> chunk_size,
     overlap |-> overlap, start |-> 0, end |-> 0, chunks |-> <<>>,
     ranges |-> <<>>, result |-> <<>>]

\* One iteration of the while loop (document_processor.py:53-68).
ChunkIterate ==
    /\ chunker.pc = "while"
    /\ chunker.start < Len(chunker.text)
    /\ \E s \in {ChunkStep(chunker.text, chunker.chunk_size, chunker.overlap,
                            chunker.start)} :
          chunker' = [chunker EXCEPT !.chunks = Append(@, s.chunk),
                                     !.ranges = Append(@, <<chunker.start, s.end>>),
                                     !.end = s.end,
                                     !.start = s.next]
    /\ UNCHANGED <<model_name, sentence_model, vector_store, is_ready, fs, ret,
                   ever_ready, thread, loads, processor, pickles, db, request>>

\* The loop is left and the non-empty chunks are returned
\* (document_processor.py:70).
ChunkReturn ==
    /\ chunker.pc = "while"
    /\ ~(chunker.start < Len(chunker.text))
    /\ chunker' = [chunker EXCEPT !.pc = "done",
                                  !.result = SelectSeq(chunker.chunks,
                                                       LAMBDA c : c # <<>>)]
    /\ UNCHANGED <<model_name, sentence_model, vector_store, is_ready, fs, ret,
                   ever_ready, thread, loads, processor, pickles, db, request>>

\* The rest of the process while a chunk_text call is followed: a new system.
NoSystemCall ==
    /\ ThreadsIdle
    /\ model_name = "all-MiniLM-L6-v2"
    /\ sentence_model = None
    /\ vector_store = VectorStoreInit(DEFAULT_EMBEDDING_DIM)
    /\ is_ready = FALSE
    /\ fs = [p \in Paths |-> [index |-> NoFile, metadata |-> NoFile]]
    /\ ret = Call("__init__", [sentence_model |-> model_name], "ok", <<>>)
    /\ ever_ready = FALSE

InitChunk ==
    /\ NoSystemCall
    /\ ProcessorUnused
    /\ NoRequests
    /\ \E text \in Texts, chunk_size \in ChunkSizes, overlap \in Overlaps :
          chunker = ChunkCall(text, chunk_size, overlap)

NextChunk == ChunkIterate \/ ChunkReturn

SpecChunk == InitChunk /\ [][NextChunk]_vars

\* The calls on the texts up to MaxShortTextLen.
InitChunkShort ==
    /\ NoSystemCall
    /\ ProcessorUnused
    /\ NoRequests
    /\ \E text \in {t \in Texts : Len(t) <= MaxShortTextLen},
          chunk_size \in ChunkSizes, overlap \in Overlaps :
          chunker = ChunkCall(text, chunk_size, overlap)

\* The loop is the only thing the call does, so it keeps running.
SpecChunkFair == InitChunkShort /\ [][NextChunk]_vars /\ WF_vars(NextChunk)

\* ------------------------- build_index and retrieve, statement by statement
\* Threads of one process call build_index and retrieve on one
\* RetrievalSystem; no statement of either holds a lock.

\* The variables the threads' statements leave alone.
outside == <<model_name, is_ready, fs, ret, ever_ready, chunker,
             processor, pickles, db, request>>

\* The document lists, queries and k of the threads' calls.
ThreadCorpora == { <<D_web>>, <<D_noid, D_web>>, <<D_blank>> }
ThreadQueries == { <<"a">> }
ThreadKs == {2}

\* Thread t goes to the statement pc with the locals frame.
Goto(t, pc, frame) ==
    thread' = [thread EXCEPT ![t] = [pc |-> pc, calls |-> thread[t].calls,
                                     frame |-> frame]]

\* Thread t leaves its call; frame keeps what the call returned or raised.
Return(t, frame) == Goto(t, "idle", frame)

\* build_index(documents) is called: a new DocumentProcessor processes the
\* documents (vector_store.py:162-163).
CallBuildIndex(t, documents) ==
    /\ thread[t].pc = "idle"
    /\ thread[t].calls < MaxCalls
    /\ thread' = [thread EXCEPT ![t] =
                     [pc |-> "create_embeddings", calls |-> thread[t].calls + 1,
                      frame |-> [op |-> "build_index",
                                 processed_docs |-> process_documents(documents)]]]
    /\ UNCHANGED <<sentence_model, vector_store, loads, outside>>

\* processor.create_embeddings() (document_processor.py:116-125): the new
\* processor has no model, so it constructs one; then ValueError without
\* chunks, else the chunks are encoded.
CreateEmbeddings(t) ==
    /\ thread[t].pc = "create_embeddings"
    /\ loads' = [loads EXCEPT !.processor = @ + 1]
    /\ \E made \in {create_embeddings(model_name, thread[t].frame.processed_docs)} :
          IF made.outcome # "ok"
          THEN Return(t, [op |-> "build_index", outcome |-> made.outcome])
          ELSE Goto(t, "new_index",
                    thread[t].frame @@ [embeddings |-> made.embeddings])
    /\ UNCHANGED <<sentence_model, vector_store, outside>>

\* self.index = faiss.IndexFlatL2(self.embedding_dim) (vector_store.py:43)
NewIndex(t) ==
    /\ thread[t].pc = "new_index"
    /\ vector_store' = [vector_store EXCEPT
                           !.index = IndexFlatL2(vector_store.embedding_dim)]
    /\ Goto(t, "add", thread[t].frame)
    /\ UNCHANGED <<sentence_model, loads, outside>>

\* self.index.add(embeddings) (vector_store.py:47): faiss asserts the
\* dimension, then appends the vectors to the index self.index names.
IndexAdd(t) ==
    /\ thread[t].pc = "add"
    /\ IF \E i \in 1..Len(thread[t].frame.embeddings) :
             thread[t].frame.embeddings[i].dim # vector_store.index.d
       THEN /\ Return(t, [op |-> "build_index", outcome |-> "AssertionError"])
            /\ UNCHANGED vector_store
       ELSE /\ vector_store' = [vector_store EXCEPT
                                   !.index.xb = @ \o thread[t].frame.embeddings]
            /\ Goto(t, "set_documents", thread[t].frame)
    /\ UNCHANGED <<sentence_model, loads, outside>>

\* self.documents = documents (vector_store.py:49)
SetDocuments(t) ==
    /\ thread[t].pc = "set_documents"
    /\ vector_store' = [vector_store EXCEPT
                           !.documents = thread[t].frame.processed_docs]
    /\ Goto(t, "set_embeddings", thread[t].frame)
    /\ UNCHANGED <<sentence_model, loads, outside>>

\* self.embeddings = embeddings (vector_store.py:50)
SetEmbeddings(t) ==
    /\ thread[t].pc = "set_embeddings"
    /\ vector_store' = [vector_store EXCEPT
                           !.embeddings = [kind |-> "ndarray",
                                           rows |-> thread[t].frame.embeddings]]
    /\ Goto(t, "set_trained", thread[t].frame)
    /\ UNCHANGED <<sentence_model, loads, outside>>

\* self.is_trained = True (vector_store.py:51), and build_index returns.
SetTrained(t) ==
    /\ thread[t].pc = "set_trained"
    /\ vector_store' = [vector_store EXCEPT !.is_trained = TRUE]
    /\ Return(t, [op |-> "build_index", outcome |-> "ok"])
    /\ UNCHANGED <<sentence_model, loads, outside>>

\* retrieve(query, k) is called.
CallRetrieve(t, query, k) ==
    /\ thread[t].pc = "idle"
    /\ thread[t].calls < MaxCalls
    /\ thread' = [thread EXCEPT ![t] =
                     [pc |-> "retrieve", calls |-> thread[t].calls + 1,
                      frame |-> [op |-> "retrieve", query |-> query, k |-> k]]]
    /\ UNCHANGED <<sentence_model, vector_store, loads, outside>>

\* if self.sentence_model is None: self.load_model() (vector_store.py:184)
CheckModel(t) ==
    /\ thread[t].pc = "retrieve"
    /\ Goto(t, IF sentence_model = None THEN "load_model" ELSE "encode",
            thread[t].frame)
    /\ UNCHANGED <<sentence_model, vector_store, loads, outside>>

\* load_model: if self.sentence_model is None (vector_store.py:148)
LoadModelCheck(t) ==
    /\ thread[t].pc = "load_model"
    /\ Goto(t, IF sentence_model = None THEN "construct" ELSE "encode",
            thread[t].frame)
    /\ UNCHANGED <<sentence_model, vector_store, loads, outside>>

\* self.sentence_model = SentenceTransformer(self.model_name)
\* (vector_store.py:150)
ConstructModel(t) ==
    /\ thread[t].pc = "construct"
    /\ loads' = [loads EXCEPT !.retrieval = @ + 1]
    /\ sentence_model' = model_name
    /\ Goto(t, "encode", thread[t].frame)
    /\ UNCHANGED <<vector_store, outside>>

\* query_embedding = self.sentence_model.encode([query]) (vector_store.py:188)
EncodeQuery(t) ==
    /\ thread[t].pc = "encode"
    /\ Goto(t, "search",
            thread[t].frame
               @@ [query_embedding |-> Encode(sentence_model, thread[t].frame.query)])
    /\ UNCHANGED <<sentence_model, vector_store, loads, outside>>

\* search: if not self.is_trained: raise ValueError (vector_store.py:66-67)
SearchGuard(t) ==
    /\ thread[t].pc = "search"
    /\ IF ~vector_store.is_trained
       THEN Return(t, [op |-> "retrieve", outcome |-> "ValueError"])
       ELSE Goto(t, "index_search", thread[t].frame)
    /\ UNCHANGED <<sentence_model, vector_store, loads, outside>>

\* distances, indices = self.index.search(query_embedding, k)
\* (vector_store.py:75). searched is history: the vectors the index held.
IndexSearch(t) ==
    /\ thread[t].pc = "index_search"
    /\ IF vector_store.index = NoneObject
       THEN Return(t, [op |-> "retrieve", outcome |-> "AttributeError"])
       ELSE IF thread[t].frame.query_embedding.dim # vector_store.index.d
       THEN Return(t, [op |-> "retrieve", outcome |-> "AssertionError"])
       ELSE Goto(t, "results",
                 thread[t].frame
                    @@ [hits |-> FaissSearch(vector_store.index,
                                             thread[t].frame.query_embedding,
                                             thread[t].frame.k),
                        searched |-> vector_store.index.xb])
    /\ UNCHANGED <<sentence_model, vector_store, loads, outside>>

\* The result loop over self.documents (vector_store.py:77-85), and the
\* return of search and retrieve. documents is history: the list the loop
\* read.
BuildResults(t) ==
    /\ thread[t].pc = "results"
    /\ \E hits \in {thread[t].frame.hits} :
          Return(t, [op        |-> "retrieve",
                     outcome   |-> IF \E r \in 1..Len(hits) :
                                         /\ hits[r].label # -1
                                         /\ hits[r].label >= Len(vector_store.documents)
                                   THEN "IndexError" ELSE "ok",
                     value     |-> IF \E r \in 1..Len(hits) :
                                         /\ hits[r].label # -1
                                         /\ hits[r].label >= Len(vector_store.documents)
                                   THEN <<>>
                                   ELSE SearchResults(vector_store.documents, hits),
                     searched  |-> thread[t].frame.searched,
                     documents |-> vector_store.documents])
    /\ UNCHANGED <<sentence_model, vector_store, loads, outside>>

\* One statement of thread t.
Statement(t) ==
    \/ \E documents \in ThreadCorpora : CallBuildIndex(t, documents)
    \/ CreateEmbeddings(t)
    \/ NewIndex(t)
    \/ IndexAdd(t)
    \/ SetDocuments(t)
    \/ SetEmbeddings(t)
    \/ SetTrained(t)
    \/ \E query \in ThreadQueries, k \in ThreadKs : CallRetrieve(t, query, k)
    \/ CheckModel(t)
    \/ LoadModelCheck(t)
    \/ ConstructModel(t)
    \/ EncodeQuery(t)
    \/ SearchGuard(t)
    \/ IndexSearch(t)
    \/ BuildResults(t)

\* A new RetrievalSystem of a 384- or 768-dimensional model.
InitThreads ==
    /\ ThreadsIdle
    /\ ChunkerIdle
    /\ ProcessorUnused
    /\ NoRequests
    /\ model_name \in {"all-MiniLM-L6-v2", "all-mpnet-base-v2"}
    /\ sentence_model = None
    /\ vector_store = VectorStoreInit(DEFAULT_EMBEDDING_DIM)
    /\ is_ready = FALSE
    /\ fs = [p \in Paths |-> [index |-> NoFile, metadata |-> NoFile]]
    /\ ret = Call("__init__", [sentence_model |-> model_name], "ok", <<>>)
    /\ ever_ready = FALSE

NextThreads == \E t \in Threads : Statement(t)

\* The threads interleave statement by statement.
SpecThreads == InitThreads /\ [][NextThreads]_vars

NextOneThread == \E t \in {"t1"} : Statement(t)

\* One thread makes its calls one after the other.
SpecOneThread == InitThreads /\ [][NextOneThread]_vars

\* ------------------------------------------ a DocumentProcessor on its own

\* The variables the calls of the DocumentProcessor leave alone.
beside_processor == <<model_name, sentence_model, vector_store, is_ready, fs,
                      ever_ready, thread, loads, chunker, db, request>>

\* DocumentProcessor(name)
NewProcessor(name) ==
    /\ processor' = DocumentProcessorInit(name)
    /\ ret' = Call("DocumentProcessor", [model_name |-> name], "ok", <<>>)
    /\ UNCHANGED <<pickles, beside_processor>>

\* processor.load_model()
ProcessorLoadModel ==
    /\ processor' = DocumentProcessor_load_model(processor)
    /\ ret' = Call("load_model", <<>>, "ok", <<>>)
    /\ UNCHANGED <<pickles, beside_processor>>

\* processor.process_documents(documents): the chunk records are stored and
\* returned (document_processor.py:103-104).
ProcessDocuments(documents) ==
    /\ processor' = [processor EXCEPT !.documents = ProcessedCorpora[documents]]
    /\ ret' = Call("process_documents", [documents |-> documents], "ok",
                   processor'.documents)
    /\ UNCHANGED <<pickles, beside_processor>>

\* processor.create_embeddings(texts). after_process is history: the call
\* before was process_documents.
ProcessorCreateEmbeddings(texts) ==
    \E r \in {DocumentProcessor_create_embeddings(processor, texts)} :
        /\ processor' = r.dp
        /\ ret' = Call("create_embeddings",
                       [texts |-> texts,
                        after_process |-> (ret.op = "process_documents")],
                       r.outcome, r.value)
        /\ UNCHANGED <<pickles, beside_processor>>

\* processor.save_embeddings(file_path). after_embedding is history: the
\* call before was a create_embeddings() that returned.
SaveEmbeddings ==
    /\ pickles' = DocumentProcessor_save_embeddings(processor)
    /\ ret' = Call("save_embeddings",
                   [after_embedding |-> /\ ret.op = "create_embeddings"
                                        /\ ret.outcome = "ok"
                                        /\ ret.args.texts = NoneObject],
                   "ok", <<>>)
    /\ UNCHANGED <<processor, beside_processor>>

\* processor.load_embeddings(file_path). held is history: the model the
\* processor held when it was called.
LoadEmbeddings ==
    \E r \in {DocumentProcessor_load_embeddings(processor, pickles)} :
        /\ processor' = r.dp
        /\ ret' = Call("load_embeddings", [held |-> processor.model],
                       r.outcome, <<>>)
        /\ UNCHANGED <<pickles, beside_processor>>

\* A new DocumentProcessor of some model; no embeddings file yet.
InitProcessor ==
    /\ NoSystemCall
    /\ ChunkerIdle
    /\ NoRequests
    /\ processor \in {DocumentProcessorInit(name) : name \in ModelNames}
    /\ pickles = NoFile

NextProcessor ==
    \/ \E name \in ModelNames : NewProcessor(name)
    \/ ProcessorLoadModel
    \/ \E documents \in ProcessorCorpora : ProcessDocuments(documents)
    \/ \E texts \in TextArgs : ProcessorCreateEmbeddings(texts)
    \/ SaveEmbeddings
    \/ LoadEmbeddings

SpecProcessor == InitProcessor /\ [][NextProcessor]_vars

\* --------------------------------------- like_blog, statement by statement
\* Each user sends like_blog requests for the one blog, one after the other;
\* the requests of different users run in different workers, and no
\* statement of the view holds a lock or runs in a transaction.

\* The variables the requests leave alone.
beside_requests == <<model_name, sentence_model, vector_store, is_ready, fs, ret,
                     ever_ready, thread, loads, chunker, processor, pickles>>

\* User u's request goes to the statement pc with the local blog instance.
Proceed(u, pc, blog) ==
    request' = [request EXCEPT ![u] = [pc |-> pc, sent |-> request[u].sent,
                                       blog |-> blog, response |-> NoneObject]]

\* User u's request returns the response.
Respond(u, response) ==
    request' = [request EXCEPT ![u] = [pc |-> "idle", sent |-> request[u].sent,
                                       blog |-> NoneObject,
                                       response |-> response]]

\* blog = get_object_or_404(Blog, id=blog_id, is_published=True)
\* (views.py:76): the row is read into the request's own instance.
GetBlog(u) ==
    /\ request[u].pc = "idle"
    /\ request[u].sent < MaxRequests
    /\ request' = [request EXCEPT ![u] =
                      IF db.blog.is_published
                      THEN [pc |-> "get_or_create", sent |-> request[u].sent + 1,
                            blog |-> db.blog, response |-> NoneObject]
                      ELSE [pc |-> "idle", sent |-> request[u].sent + 1,
                            blog |-> NoneObject, response |-> [status |-> 404]]]
    /\ UNCHANGED <<db, beside_requests>>

\* like, created = BlogLike.objects.get_or_create(blog=blog, user=request.user)
\* (views.py:77)
GetOrCreate(u) ==
    /\ request[u].pc = "get_or_create"
    /\ IF u \in db.likes
       THEN /\ Proceed(u, "delete", request[u].blog)
            /\ UNCHANGED db
       ELSE /\ Proceed(u, "increment", request[u].blog)
            /\ db' = [db EXCEPT !.likes = @ \cup {u}]
    /\ UNCHANGED beside_requests

\* like.delete() (views.py:80)
DeleteLike(u) ==
    /\ request[u].pc = "delete"
    /\ db' = [db EXCEPT !.likes = @ \ {u}]
    /\ Proceed(u, "decrement", request[u].blog)
    /\ UNCHANGED beside_requests

\* blog.likes_count = max(0, blog.likes_count - 1); blog.save(); return
\* (views.py:81-83): save writes the fields of the request's instance.
SaveUnliked(u) ==
    /\ request[u].pc = "decrement"
    /\ \E blog \in {[request[u].blog EXCEPT
                         !.likes_count = Max(0, request[u].blog.likes_count - 1)]} :
          /\ db' = [db EXCEPT !.blog = blog]
          /\ Respond(u, [status |-> 200, liked |-> FALSE,
                         likes_count |-> blog.likes_count])
    /\ UNCHANGED beside_requests

\* blog.likes_count += 1; blog.save(); return (views.py:85-87)
SaveLiked(u) ==
    /\ request[u].pc = "increment"
    /\ \E blog \in {[request[u].blog EXCEPT
                         !.likes_count = request[u].blog.likes_count + 1]} :
          /\ db' = [db EXCEPT !.blog = blog]
          /\ Respond(u, [status |-> 200, liked |-> TRUE,
                         likes_count |-> blog.likes_count])
    /\ UNCHANGED beside_requests

\* The blog, published or not, with the likes of some users and the
\* likes_count that goes with them.
InitLikes ==
    /\ NoSystemCall
    /\ ChunkerIdle
    /\ ProcessorUnused
    /\ \E is_published \in BOOLEAN, likes \in SUBSET Users :
          db = [blog |-> [is_published |-> is_published,
                          likes_count |-> Cardinality(likes)],
                likes |-> likes]
    /\ request = [u \in Users |-> [pc |-> "idle", sent |-> 0,
                                   blog |-> NoneObject, response |-> NoneObject]]

NextLikes ==
    \E u \in Users :
       \/ GetBlog(u)
       \/ GetOrCreate(u)
       \/ DeleteLike(u)
       \/ SaveUnliked(u)
       \/ SaveLiked(u)

\* The requests of the users interleave statement by statement.
SpecLikes == InitLikes /\ [][NextLikes]_vars

\* ------------------------------------------------------------- properties

\* The chunk record a result was made from: the result without the two keys
\* search adds.
ChunkOf(result) ==
    [key \in DOMAIN result \ {"similarity_score", "rank"} |-> result[key]]

\* The last call was a retrieve that returned a result list.
Retrieved == ret.op = "retrieve" /\ ret.outcome = "ok"

\* The squared distance a result's similarity score 1 / (1 + d) stands for.
DistanceOf(result) == result.similarity_score.den - 1

\* Score a >= score b, both fractions with positive denominators.
ScoreGeq(a, b) == a.num * b.den >= b.num * a.den

\* C1: while no create_index and no load_index of the VectorStore has
\* completed, search raises ValueError (the code's NotTrainedError) for every
\* query and k, and a retrieve made in that state returned no list.
C1_SearchBeforeBuildRaises ==
    ~ever_ready =>
        /\ \A q \in QueryVectors, k \in Ks :
              search(vector_store, q, k) = [outcome |-> "ValueError", value |-> <<>>]
        /\ ret.op = "retrieve" => ret.outcome = "ValueError" /\ ret.value = <<>>

\* A retrieve raised ValueError on a store whose only build failed and left an
\* empty faiss index behind.
C1_Witness ==
    /\ ret.op = "retrieve" /\ ret.outcome = "ValueError"
    /\ ~ever_ready
    /\ vector_store.index # NoneObject

\* What C2 says of one returned list: min(k, n) results, each made from the
\* chunk record at a label faiss returned, none of them the label -1.
KBound(vs, query_embedding, k, value) ==
    LET hits == FaissSearch(vs.index, query_embedding, k)
    IN  /\ Len(value) = Min(k, Len(vs.index.xb))
        /\ Len(value) <= k
        /\ \A j \in 1..Len(value) :
              /\ hits[j].label # -1
              /\ ChunkOf(value[j]) = vs.documents[hits[j].label + 1]

RankOrder(vs, query_embedding, value) ==
    LET near(d) == {i \in 1..Len(vs.index.xb) :
                        L2(vs.index.xb[i], query_embedding) < d}
    IN  \A j \in 1..Len(value) :
           /\ value[j].rank = j
           /\ value[j].similarity_score = SimilarityScore(DistanceOf(value[j]))
           /\ \E i \in 1..Len(vs.index.xb) :
                 L2(vs.index.xb[i], query_embedding) = DistanceOf(value[j])
           /\ Cardinality(near(DistanceOf(value[j]))) <= j - 1
           /\ j < Len(value) =>
                 /\ DistanceOf(value[j]) <= DistanceOf(value[j + 1])
                 /\ ScoreGeq(value[j].similarity_score,
                             value[j + 1].similarity_score)

\* C3: in every returned result list the j-th element has rank j, rank 1 is
\* the nearest vector, distance is non-decreasing and score non-increasing.
C3_RankOrder ==
    Retrieved => RankOrder(vector_store, ret.args.query_embedding, ret.value)

\* A retrieve returned at least two results at different distances, the
\* nearest of them not the first chunk stored.
C3_Witness ==
    /\ Retrieved
    /\ Len(ret.value) >= 2
    /\ DistanceOf(ret.value[1]) < DistanceOf(ret.value[2])
    /\ ChunkOf(ret.value[1]) # vector_store.documents[1]

\* The last call saved the index: save_index, or the build branch of
\* setup_knowledge_base with a path, returned normally.
SavedOk ==
    /\ ret.outcome = "ok"
    /\ \/ ret.op = "save_index"
       \/ /\ ret.op = "setup_knowledge_base"
          /\ ret.args.branch = "build"
          /\ Truthy(ret.args.index_path)

SavedPath == IF ret.op = "save_index" THEN ret.args.file_path
             ELSE ret.args.index_path

\* C4: after a save, load_index of the saved path into a new VectorStore
\* succeeds, and the loaded store answers every query vector and every k as
\* the saved store does, without create_index.
C4_SaveLoadRoundTrip ==
    SavedOk =>
        LET loaded == load_index(VectorStoreInit(DEFAULT_EMBEDDING_DIM), fs, SavedPath)
        IN  /\ loaded.outcome = "ok"
            /\ \A q \in QueryVectors, k \in Ks :
                  search(loaded.vs, q, k) = search(vector_store, q, k)

\* An index that answers some query with two or more results has been saved.
C4_Witness ==
    /\ SavedOk
    /\ \E q \in QueryVectors :
          /\ search(vector_store, q, MaxK).outcome = "ok"
          /\ Len(search(vector_store, q, MaxK).value) >= 2

\* The last call rebuilt the index: build_index returned normally, alone or
\* inside setup_knowledge_base (whose save may still have failed).
Rebuilt ==
    \/ ret.op = "build_index" /\ ret.outcome = "ok"
    \/ /\ ret.op = "setup_knowledge_base"
       /\ ret.args.branch = "build"
       /\ ret.outcome \in {"ok", "OSError"}

\* The documents of that build.
RebuiltFrom ==
    IF ret.op = "build_index" THEN ret.args.documents
    ELSE IF ret.args.documents = NoneObject THEN load_sample_blog_data
    ELSE ret.args.documents.docs

\* C5: after a build the store holds exactly the chunk records of the new
\* documents and their vectors, is ready, answers no query with another
\* chunk, and building again from the same documents changes nothing.
C5_BuildReplaces ==
    Rebuilt =>
        LET new == process_documents(RebuiltFrom)
        IN  /\ vector_store.documents = new
            /\ vector_store.index.xb =
                  EncodeAll(model_name, [i \in 1..Len(new) |-> new[i].chunk])
            /\ vector_store.is_trained
            /\ \A q \in QueryVectors, k \in Ks :
                  \A found \in {search(vector_store, q, k)} :
                     \A j \in 1..Len(found.value) :
                        \E i \in 1..Len(new) : ChunkOf(found.value[j]) = new[i]
            /\ build_index(model_name, vector_store, RebuiltFrom).vs = vector_store

\* build_index replaced the state of a store that a setup of this process
\* had made ready before.
C5_Witness ==
    /\ ret.op = "build_index" /\ ret.outcome = "ok"
    /\ is_ready
    /\ ExistsMetadata(fs, "blog_index")
    /\ fs["blog_index"].metadata.documents # vector_store.documents

\* The chunk texts of all the document lists.
ChunkTexts ==
    UNION {{process_documents(c)[i].chunk : i \in 1..Len(process_documents(c))} :
              c \in Corpora \cup {load_sample_blog_data}}

\* The vector is an embedding the named model produces for a chunk text.
EmbeddedBy(name, vector) == \E text \in ChunkTexts : Encode(name, text) = vector

\* C6: whenever retrieve answers a query, every vector of the index it
\* searched was produced by the model that embedded the query.
C6_NoModelMixing ==
    Retrieved =>
        \A i \in 1..Len(vector_store.index.xb) :
           EmbeddedBy(sentence_model, vector_store.index.xb[i])

\* C7: a search of an index with a query vector of another dimension raises
\* and returns no result list.
C7_DimensionMismatchRejected ==
    /\ ret.op = "retrieve"
    /\ vector_store.index # NoneObject
    /\ ret.args.query_embedding.dim # vector_store.index.d
    => /\ ret.outcome \in {"ValueError", "AssertionError"}
       /\ ret.value = <<>>

\* A retrieve on a ready index that holds vectors embedded the query in
\* another dimension and raised faiss's AssertionError.
C7_Witness ==
    /\ ret.op = "retrieve" /\ ret.outcome = "AssertionError"
    /\ vector_store.is_trained
    /\ Len(vector_store.index.xb) > 0
    /\ ret.args.query_embedding.dim # vector_store.index.d

\* The documents yield no chunk.
ZeroChunks(documents) == process_documents(documents) = <<>>

\* The step is a build_index (alone or in setup_knowledge_base) over
\* documents that yield no chunk.
EmptyBuildStep ==
    \/ ret'.op = "build_index" /\ ZeroChunks(ret'.args.documents)
    \/ /\ ret'.op = "setup_knowledge_base"
       /\ ret'.args.branch = "build"
       /\ ret'.args.documents # NoneObject
       /\ ZeroChunks(ret'.args.documents.docs)

\* C8: a build over no documents, or over documents without any chunk,
\* raises ValueError, leaves the vector store and the files as they were (so
\* makes no ready index of size zero) and does not set is_ready.
C8_EmptyCorpusRaises ==
    [][EmptyBuildStep =>
          /\ ret'.outcome = "ValueError"
          /\ vector_store' = vector_store
          /\ is_ready' = is_ready
          /\ fs' = fs]_vars

\* setup_knowledge_base over one blank document raised ValueError and the
\* system is not ready.
C8_Witness ==
    /\ ret.op = "setup_knowledge_base" /\ ret.outcome = "ValueError"
    /\ ret.args.documents = [kind |-> "list", docs |-> <<D_blank>>]
    /\ ~is_ready
    /\ ~vector_store.is_trained

\* One of the two artifacts of the path is missing.
Missing(files, file_path) ==
    ~ExistsIndex(files, file_path) \/ ~ExistsMetadata(files, file_path)

\* The step is a load_index (alone or in setup_knowledge_base) of a path
\* with a missing artifact.
LoadMissingStep ==
    \/ ret'.op = "load_index" /\ Missing(fs, ret'.args.file_path)
    \/ /\ ret'.op = "setup_knowledge_base"
       /\ ret'.args.branch = "load"
       /\ Missing(fs, ret'.args.index_path)

\* C9: load_index of a path with a missing artifact raises
\* FileNotFoundError and leaves the in-memory index as it was.
C9_LoadMissingRaises ==
    [][LoadMissingStep =>
          /\ ret'.outcome = "FileNotFoundError"
          /\ vector_store' = vector_store]_vars

\* load_index raised FileNotFoundError for a path with the index file but
\* no metadata, on a store that holds a built index.
C9_Witness ==
    /\ ret.op = "load_index" /\ ret.outcome = "FileNotFoundError"
    /\ vector_store.is_trained
    /\ ExistsIndex(fs, ret.args.file_path)
    /\ ~ExistsMetadata(fs, ret.args.file_path)
    /\ vector_store.index # ReadIndex(fs[ret.args.file_path].index)

\* C10: setup_knowledge_base with a path of which exactly one artifact
\* exists raises FileNotFoundError.
C10_PartialPresenceFails ==
    [][/\ ret'.op = "setup_knowledge_base"
       /\ Truthy(ret'.args.index_path)
       /\ ExistsIndex(fs, ret'.args.index_path)
             # ExistsMetadata(fs, ret'.args.index_path)
       => ret'.outcome = "FileNotFoundError"]_vars

\* The documents a setup_knowledge_base call builds from when it builds.
SetupDocuments(args) ==
    IF args.documents = NoneObject THEN load_sample_blog_data
    ELSE args.documents.docs

\* What C11 says of one setup_knowledge_base step with the given arguments:
\* with a persisted index at the path the store becomes what load_index
\* gives and no file is written; otherwise the store becomes what build_index
\* gives, and the files change only by a save of that store at the path.
OneOfLoadOrBuild(args) ==
    IF Truthy(args.index_path) /\ fs[args.index_path].index # NoFile
    THEN /\ vector_store' = load_index(vector_store, fs, args.index_path).vs
         /\ fs' = fs
    ELSE LET built == build_index(model_name, vector_store, SetupDocuments(args))
         IN  /\ vector_store' = built.vs
             /\ sentence_model' = sentence_model
             /\ IF Truthy(args.index_path) /\ built.outcome = "ok"
                THEN /\ fs'[args.index_path].index = WriteIndex(built.vs.index)
                     /\ ret'.outcome = "ok" =>
                           fs'[args.index_path].metadata = Metadata(built.vs)
                ELSE fs' = fs

\* C11: every setup_knowledge_base call either loads the persisted index of
\* its path (when the index file exists, whatever documents were supplied) or
\* builds and then saves iff a path was given; never both, and a build
\* without a path writes no file.
C11_LoadOrBuild ==
    [][ret'.op = "setup_knowledge_base" => OneOfLoadOrBuild(ret'.args)]_vars

\* setup_knowledge_base was given documents and the path of a persisted
\* index of other documents, and loaded that index.
C11_Witness ==
    /\ ret.op = "setup_knowledge_base" /\ ret.outcome = "ok"
    /\ Truthy(ret.args.index_path)
    /\ ret.args.documents # NoneObject
    /\ ZeroChunks(ret.args.documents.docs) = FALSE
    /\ vector_store.documents = fs[ret.args.index_path].metadata.documents
    /\ vector_store.documents # process_documents(ret.args.documents.docs)

\* The step is one iteration of the while loop of chunk_text.
Iteration == chunker.pc = "while" /\ chunker'.pc = "while"

\* The chunk_text call has returned.
Chunked == chunker.pc = "done"

\* The arguments satisfy chunk_size > overlap >= 0.
ValidChunkArgs == chunker.chunk_size > chunker.overlap /\ chunker.overlap >= 0

\* C15: every iteration moves start forward by at least one character and
\* the loop has run at most len(text) times, for every text, chunk_size and
\* overlap; so the call returns.
C15_ChunkTerminates ==
    /\ [][Iteration =>
            /\ chunker'.start >= chunker.start + 1
            /\ Len(chunker'.chunks) <= Len(chunker.text)]_vars
    /\ <>Chunked

\* A call with chunk_size <= overlap on a text of several characters
\* returned after len(text) iterations.
C15_Witness ==
    /\ Chunked
    /\ chunker.chunk_size <= chunker.overlap
    /\ Len(chunker.text) >= 3
    /\ Len(chunker.chunks) = Len(chunker.text)

\* The window text[start : start + chunk_size] of the iteration about to run
\* and the index in it of its last period or newline (-1 if none).
Window == PySlice(chunker.text, chunker.start, chunker.start + chunker.chunk_size)
LastBreak == Max(RFind(Window, "."), RFind(Window, "\n"))

\* C16 (for chunk_size > overlap >= 0): in every iteration whose window does
\* not reach the end of the text and whose last period or newline lies after
\* the middle of the window, the chunk ends at that character.
C16_BreakAfterMidpoint ==
    [][/\ Iteration
       /\ ValidChunkArgs
       /\ chunker.start + chunker.chunk_size < Len(chunker.text)
       /\ LastBreak > chunker.chunk_size \div 2
       => chunker'.end = chunker.start + LastBreak + 1]_vars

\* The number of whitespace characters strip() removes at the front.
LeadingWhitespace(raw) ==
    Cardinality({i \in 1..Len(raw) : \A j \in 1..i : raw[j] \in Whitespace})

\* The character at 0-based position p of the text is in the returned chunk
\* made in iteration i.
Covers(i, p) ==
    LET lo  == chunker.ranges[i][1]
        hi  == chunker.ranges[i][2]
        raw == PySlice(chunker.text, lo, hi)
        j   == p - lo - LeadingWhitespace(raw) + 1
    IN  /\ lo <= p /\ p < hi
        /\ chunker.chunks[i] # <<>>
        /\ j \in 1..Len(chunker.chunks[i])
        /\ chunker.chunks[i][j] = chunker.text[p + 1]

\* C17: for chunk_size > overlap >= 0 the first window starts at 0, every
\* window starts at or before the end of the previous chunk, the last chunk
\* reaches the end of the text, and every character that is not whitespace
\* is in a returned chunk.
C17_NoGap ==
    Chunked /\ ValidChunkArgs =>
        /\ \A i \in 1..Len(chunker.ranges) :
              chunker.ranges[i][1] <= (IF i = 1 THEN 0 ELSE chunker.ranges[i - 1][2])
        /\ chunker.text # <<>> =>
              chunker.ranges[Len(chunker.ranges)][2] >= Len(chunker.text)
        /\ \A p \in 0..(Len(chunker.text) - 1) :
              chunker.text[p + 1] \notin Whitespace =>
                 \E i \in 1..Len(chunker.ranges) : Covers(i, p)
        /\ chunker.result = SelectSeq(chunker.chunks, LAMBDA c : c # <<>>)

\* A call returned several chunks, one of them shortened at a break
\* character, the next window overlapping it.
C17_Witness ==
    /\ Chunked /\ ValidChunkArgs
    /\ chunker.overlap > 0
    /\ Len(chunker.result) >= 2
    /\ \E i \in 1..(Len(chunker.ranges) - 1) :
          /\ chunker.ranges[i][2] < chunker.ranges[i][1] + chunker.chunk_size
          /\ chunker.ranges[i + 1][1] < chunker.ranges[i][2]

\* C18: for chunk_size > overlap >= 0 every returned chunk is at most
\* chunk_size long and is not empty after trimming whitespace.
C18_ChunkBounds ==
    Chunked /\ ValidChunkArgs =>
        \A i \in 1..Len(chunker.result) :
           /\ Len(chunker.result[i]) <= chunker.chunk_size
           /\ Strip(chunker.result[i]) # <<>>

\* A call returned a chunk of full length and dropped a chunk that was
\* whitespace only.
C18_Witness ==
    /\ Chunked /\ ValidChunkArgs
    /\ Len(chunker.result) < Len(chunker.chunks)
    /\ \E i \in 1..Len(chunker.result) :
          Len(chunker.result[i]) = chunker.chunk_size /\ chunker.chunk_size >= 2

\* Thread t has come back from a retrieve whose search read the index and
\* the chunk records.
Searched(t) ==
    /\ thread[t].pc = "idle"
    /\ thread[t].frame # NoneObject
    /\ thread[t].frame.op = "retrieve"
    /\ thread[t].frame.outcome \in {"ok", "IndexError"}

\* The vectors and the chunk records are one complete pair of a build: as
\* many of each, not none, each vector the embedding of the chunk at its
\* place.
CompletePair(xb, documents) ==
    /\ Len(xb) = Len(documents)
    /\ Len(xb) > 0
    /\ \A i \in 1..Len(xb) : xb[i] = Encode(model_name, documents[i].chunk)

\* C12: the vectors a search searched and the chunk records it read are one
\* complete pair, under every interleaving of build_index and retrieve.
C12_SearchSeesCompletePair ==
    \A t \in Threads :
       Searched(t) => CompletePair(thread[t].frame.searched, thread[t].frame.documents)

\* C13: the threads' retrieve calls construct the RetrievalSystem's model
\* at most once.
C13_SingleFlightLoad == loads.retrieval <= 1

\* C14: the calls one thread makes one after the other construct the model
\* of the system's model name at most once.
C14_ModelLoadedOnce == loads.retrieval + loads.processor <= 1

\* The RAGBlogSystem methods that need a knowledge base.
BlogOps == {"write_blog_post", "create_blog_outline",
            "enhance_existing_content", "search_knowledge_base"}

\* C19: is_ready becomes true only in a setup_knowledge_base call that
\* returns after a successful load or build; and while is_ready is false each
\* of the four methods raises ValueError and calls neither the retrieval
\* system nor the generator.
C19_ReadyGuard ==
    [][/\ ~is_ready /\ is_ready' =>
             /\ ret'.op = "setup_knowledge_base"
             /\ ret'.outcome = "ok"
             /\ vector_store'.is_trained
             /\ vector_store'.documents # <<>>
       /\ ~is_ready /\ ret'.op \in BlogOps =>
             /\ ret'.outcome = "ValueError"
             /\ ret'.value = <<>>
             /\ ret'.invoked = <<>>
             /\ sentence_model' = sentence_model
             /\ vector_store' = vector_store]_vars

\* search_knowledge_base raised ValueError on a system that is not ready
\* although its vector store holds a built index (the save of the setup had
\* failed).
C19_Witness ==
    /\ ret.op = "search_knowledge_base" /\ ret.outcome = "ValueError"
    /\ ~is_ready
    /\ vector_store.is_trained
    /\ sentence_model = None

\* The last call returned a text made from a context string.
Rendered ==
    /\ ret.op \in {"write_blog_post", "create_blog_outline", "enhance_existing_content"}
    /\ ret.outcome = "ok"

\* The context string of that call, and the results it was rendered from.
RenderedContext ==
    IF ret.op = "write_blog_post" THEN ret.value.content.context
    ELSE IF ret.op = "create_blog_outline" THEN ret.value.outline.context
    ELSE ret.value.context

RenderedFrom ==
    IF ret.op = "enhance_existing_content"
    THEN search(vector_store,
                Encode(sentence_model,
                       IF ret.args.search_query = NoneObject
                       THEN ret.args.section_title
                       ELSE ret.args.search_query.text),
                2).value
    ELSE ret.value.retrieved_docs

\* The block C20 describes for one result.
Block(result) ==
    "Title: " \o result.title
       \o "\nContent: " \o StrOf(result.chunk)
       \o "\nCategory: "
       \o (IF "category" \in DOMAIN result.metadata
           THEN result.metadata.category ELSE "Unknown")
       \o "\n---"

\* The blocks of the results of rank 1..n, each after the first preceded by
\* a double newline.
RECURSIVE BlocksByRank(_, _)
BlocksByRank(results, n) ==
    LET ranked == CHOOSE i \in 1..Len(results) : results[i].rank = n
    IN  IF n = 0 THEN ""
        ELSE IF n = 1 THEN Block(results[ranked])
        ELSE BlocksByRank(results, n - 1) \o "\n\n" \o Block(results[ranked])

\* C20: the context string is one block per retrieved result in rank order
\* (title, chunk text, category or 'Unknown', then '---'), the blocks joined
\* by a double newline; no results give the empty string.
C20_ContextFormat ==
    /\ FormatContext(<<>>) = ""
    /\ Rendered => RenderedContext = BlocksByRank(RenderedFrom, Len(RenderedFrom))

\* A blog post was written from a context of two or more results whose
\* chunks carry no category.
C20_Witness ==
    /\ ret.op = "write_blog_post" /\ ret.outcome = "ok"
    /\ Len(ret.value.retrieved_docs) >= 2
    /\ \E j \in 1..Len(ret.value.retrieved_docs) :
          "category" \notin DOMAIN ret.value.retrieved_docs[j].metadata

Aligned(vs) ==
    /\ vs.index # NoneObject
    /\ Len(vs.index.xb) = Len(vs.documents)
    /\ \E name \in ModelNames :
          \A i \in 1..Len(vs.documents) :
             vs.index.xb[i] = Encode(name, vs.documents[i].chunk)

\* C22: whenever the index is flagged ready its vectors and its chunk
\* records are index-aligned, and no retrieve reads past the chunk list.
C22_IndexAligned ==
    /\ vector_store.is_trained => Aligned(vector_store)
    /\ ret.op = "retrieve" => ret.outcome # "IndexError"

\* The last call loaded a persisted pair: load_index, or the load branch of
\* setup_knowledge_base, returned normally.
LoadedOk ==
    /\ ret.outcome = "ok"
    /\ \/ ret.op = "load_index"
       \/ ret.op = "setup_knowledge_base" /\ ret.args.branch = "load"

\* C23: a load that succeeds restores a search structure and chunk metadata
\* of one build: the vectors of the index file are the vectors the metadata
\* file records, one per chunk record.
C23_LoadedPairOfOneBuild ==
    LoadedOk =>
        /\ vector_store.index.xb = vector_store.embeddings.rows
        /\ Len(vector_store.index.xb) = Len(vector_store.documents)

\* The step is a build_index (alone or in setup_knowledge_base) that raised.
FailedBuildStep ==
    \/ ret'.op = "build_index" /\ ret'.outcome # "ok"
    \/ /\ ret'.op = "setup_knowledge_base"
       /\ ret'.args.branch = "build"
       /\ ret'.outcome \notin {"ok", "OSError"}

\* C24: a build that raises on a store that holds a ready index leaves the
\* store as it was before the call (index, chunk records, ready flag), so
\* every search answers as before.
C24_FailedBuildKeepsStore ==
    [][FailedBuildStep /\ vector_store.is_trained =>
          /\ vector_store' = vector_store
          /\ \A q \in QueryVectors, k \in Ks :
                search(vector_store', q, k) = search(vector_store, q, k)]_vars

\* The dimension of the vectors the named model produces.
ModelDim(name) == Encode(name, <<>>).dim

\* C29: whatever model name the system was constructed with, a build_index
\* over documents that yield chunks finds a vector store of the model's
\* dimension and succeeds.
C29_PluggableModel ==
    ret.op = "build_index" /\ ~ZeroChunks(ret.args.documents) =>
        /\ vector_store.embedding_dim = ModelDim(model_name)
        /\ ret.outcome = "ok"

\* The positions of the text that the chunk appended in iteration i spans:
\* from its start up to its end or the end of the text.
Span(i) ==
    chunker.ranges[i][1] .. (Min(chunker.ranges[i][2], Len(chunker.text)) - 1)

\* C26: for chunk_size > overlap >= 0, every returned chunk after the first
\* iteration spans a position of the text that the chunk of the iteration
\* before does not; so a text no longer than chunk_size gives one chunk.
C26_NoContainedChunk ==
    Chunked /\ ValidChunkArgs =>
        /\ \A i \in 2..Len(chunker.ranges) :
              chunker.chunks[i] # <<>> => ~(Span(i) \subseteq Span(i - 1))
        /\ Len(chunker.text) <= chunker.chunk_size => Len(chunker.result) <= 1

\* The chunks of one document's content, in source-text order.
ChunksOf(doc) ==
    chunk_text(DictGet(doc, "content", <<>>), DEFAULT_CHUNK_SIZE, DEFAULT_OVERLAP)

\* The number of chunks of the documents before the j-th.
RECURSIVE ChunksBefore(_, _)
ChunksBefore(documents, j) ==
    IF j = 1 THEN 0
    ELSE ChunksBefore(documents, j - 1) + Len(ChunksOf(documents[j - 1]))

\* What C25 says of the chunk record at place c (from 1) among those of the
\* j-th document.
ChunkRecordOf(documents, j, c, record) ==
    /\ record.chunk = ChunksOf(documents[j])[c]
    /\ record.chunk_index = c - 1
    /\ record.total_chunks = Len(ChunksOf(documents[j]))
    /\ "id" \in DOMAIN documents[j] =>
          record.id = documents[j].id \o "_" \o ToString(c - 1)
    /\ record.title = DictGet(documents[j], "title", "")
    /\ record.metadata = DictGet(documents[j], "metadata", <<>>)

C27_LoadedModelMatches ==
    ret.op = "load_embeddings" /\ ret.outcome = "ok" =>
        /\ processor.model_name = pickles.model_name
        /\ processor.model = processor.model_name

\* C28: after process_documents and then create_embeddings() the stored
\* embeddings are the returned vectors, one per stored chunk and in their
\* order; and a save_embeddings that follows writes them with the chunks.
C28_EmbeddingsStored ==
    /\ /\ ret.op = "create_embeddings" /\ ret.outcome = "ok"
       /\ ret.args.texts = NoneObject /\ ret.args.after_process
       => /\ processor.embeddings = ret.value
          /\ Len(ret.value.rows) = Len(processor.documents)
          /\ \A i \in 1..Len(processor.documents) :
                ret.value.rows[i] = Encode(processor.model,
                                           processor.documents[i].chunk)
    /\ ret.op = "save_embeddings" /\ ret.args.after_embedding
       => /\ pickles.embeddings # NoneObject
          /\ pickles.documents = processor.documents

\* No like_blog request is under way.
AllResponded == \A u \in Users : request[u].pc = "idle"

\* C30: once the like_blog requests of the users have completed, the
\* blog's likes_count is the number of its BlogLike rows.
C30_LikesCountMatchesRows ==
    AllResponded => db.blog.likes_count = Cardinality(db.likes)

====
